---- MODULE Spec2Model ----
(***************************************************************************)
(* BrowserService (src/services/browser/browser.service.ts): a wrapper     *)
(* around a browser-automation driver.  The service holds one field,       *)
(* `browser`, and exposes initialize, getPage, navigateTo, waitForSelector *)
(* and close.  initialize and close suspend at a driver call and touch     *)
(* `browser` after it, so each is a call step and a completion step;       *)
(* getPage, navigateTo and waitForSelector touch no field after their      *)
(* first driver call, so each is one step whose driver outcomes are chosen *)
(* nondeterministically.  The driver is the environment: a launch or a     *)
(* close resolves or rejects, and a running browser may disconnect.        *)
(* Spec is the service under NumTasks overlapping callers of initialize,   *)
(* getPage and close; SpecOneCaller is one caller that never overlaps its  *)
(* calls and uses all five operations.                                     *)
(***************************************************************************)
EXTENDS Integers, Sequences, FiniteSets, TLC

\* Bounds of the model.
NumTasks == 3        \* concurrent callers of the service
MaxLaunches == 3     \* driver launches in one behaviour
MaxTimeout == 2      \* caller-supplied timeouts range over 0..MaxTimeout

\* this.config.defaultTimeout, taken from the server configuration
DefaultTimeout == 3

\* private browser: puppeteer.Browser | null = null
Null == 0
Tasks == 1..NumTasks
BrowserIds == 1..MaxLaunches

VARIABLES
    browser,          \* this.browser: Null or the id of a launched browser
    status,           \* driver side: "none", "live", "closed", "disconnected"
    pc,               \* where each caller is suspended
    target,           \* the browser whose close() a caller awaits
    launchCalls,      \* puppeteer.launch calls made so far
    last,             \* the step just taken: operation, outcome, driver calls
    everInitialized,  \* history: some initialize has assigned the handle
    discNoInit,       \* history: a disconnect fired and no initialize acted since
    launchedSinceClose \* history: launches since the last close call, up to 2

vars == <<browser, status, pc, target, launchCalls, last, everInitialized,
          discNoInit, launchedSinceClose>>

----------------------------------------------------------------------------
\* Values thrown by the driver: an Error with a message, or a non-Error value.
DriverThrown ==
    { [isError |-> TRUE, text |-> "driver error"],
      [isError |-> FALSE, text |-> "thrown value"] }

\* error instanceof Error ? error.message : String(error)
ErrorText(e) == <<e.text>>

\* new BrowserError(message)
BrowserError(message) == [errType |-> "BrowserError", message |-> message]

\* A catch block that lets the driver's error through unwrapped.
Rethrow(prefix, e) ==
    [errType |-> IF e.isError THEN "DriverError" ELSE "NonError", message |-> ErrorText(e)]

\* catch (error) { throw new BrowserError(`${prefix}: ${text of error}`) }
Wrap(prefix, e) == BrowserError(<<prefix>> \o ErrorText(e))

\* The BrowserError thrown by setupPage seen by getPage's catch: an Error
\* whose message is the setupPage message.
WrapBrowserError(prefix, be) == BrowserError(<<prefix>> \o be.message)

\* The record of one step: the operation, whether the step starts at the
\* call or at the resumption of its await, this.browser when it started,
\* what the caller got, the driver calls the step made and the result of
\* the driver call it awaited, and the timeout arguments in and out.
Step(op, phase, had, outcome, value, err, calls, drv, arg, sent, sentWait) ==
    [op |-> op, phase |-> phase, had |-> had, outcome |-> outcome, value |-> value,
     errType |-> err.errType, message |-> err.message, calls |-> calls,
     drv |-> drv, argTimeout |-> arg, sentTimeout |-> sent, sentWaitUntil |-> sentWait]

NoError == [errType |-> "none", message |-> <<>>]

Returned(op, phase, had, value, calls, drv) ==
    Step(op, phase, had, "return", value, NoError, calls, drv, <<>>, <<>>, <<>>)

Thrown(op, phase, had, err, calls, drv) ==
    Step(op, phase, had, "throw", "none", err, calls, drv, <<>>, <<>>, <<>>)

Pending(op, had, calls) ==
    Step(op, "call", had, "pending", "none", NoError, calls, "none", <<>>, <<>>, <<>>)

----------------------------------------------------------------------------
Init ==
    /\ browser = Null
    /\ status = [b \in BrowserIds |-> "none"]
    /\ pc = [t \in Tasks |-> "idle"]
    /\ target = [t \in Tasks |-> Null]
    /\ launchCalls = 0
    /\ last = Step("none", "none", Null, "none", "none", NoError, <<>>, "none",
                   <<>>, <<>>, <<>>)
    /\ everInitialized = FALSE
    /\ discNoInit = FALSE
    /\ launchedSinceClose = 0

Created == {b \in BrowserIds : status[b] # "none"}
Live == {b \in BrowserIds : status[b] = "live"}

Saturate(n) == IF n < 2 THEN n + 1 ELSE n

----------------------------------------------------------------------------
\* initialize()

NeedsLaunchAlways(b) == TRUE

\* if (!this.browser)
NeedsLaunch(b) == b = Null

\* initialize() up to the await of puppeteer.launch, or to its return when
\* the handle is already set.
InitStart(t) ==
    /\ pc[t] = "idle"
    /\ IF NeedsLaunch(browser)
       THEN /\ launchCalls < MaxLaunches
            /\ launchCalls' = launchCalls + 1
            /\ launchedSinceClose' = Saturate(launchedSinceClose)
            /\ pc' = [pc EXCEPT ![t] = "init_launch"]
            /\ last' = Pending("initialize", browser, <<"launch">>)
       ELSE /\ UNCHANGED <<launchCalls, launchedSinceClose, pc>>
            /\ last' = Returned("initialize", "call", browser, "void", <<>>, "none")
    /\ discNoInit' = FALSE
    /\ UNCHANGED <<browser, status, target, everInitialized>>

\* The launch resolves: this.browser = <new browser>; this.browser.on(
\* 'disconnected', ...) registers the handler on that browser.
InitResolve(t) ==
    /\ pc[t] = "init_launch"
    /\ LET b == Cardinality(Created) + 1 IN
        /\ b \in BrowserIds
        /\ status' = [status EXCEPT ![b] = "live"]
        /\ browser' = b
    /\ pc' = [pc EXCEPT ![t] = "idle"]
    /\ last' = Returned("initialize", "resume", browser, "void", <<"on">>, "ok")
    /\ everInitialized' = TRUE
    /\ discNoInit' = FALSE
    /\ UNCHANGED <<target, launchCalls, launchedSinceClose>>

\* The launch rejects: the catch wraps the error.
InitReject(t) ==
    /\ pc[t] = "init_launch"
    /\ \E e \in DriverThrown :
         last' = Thrown("initialize", "resume", browser,
                        Wrap("Failed to initialize browser", e), <<>>, "fail")
    /\ pc' = [pc EXCEPT ![t] = "idle"]
    /\ discNoInit' = FALSE
    /\ UNCHANGED <<browser, status, target, launchCalls, everInitialized,
                   launchedSinceClose>>

----------------------------------------------------------------------------
\* The 'disconnected' handler registered by initialize.

KeepHandle(b) == b

\* this.browser = null
OnDisconnected(b) == Null

\* A running browser disconnects; its handler clears the field and throws
\* a BrowserError into the driver's event emitter.
Disconnect(b) ==
    /\ status[b] = "live"
    /\ status' = [status EXCEPT ![b] = "disconnected"]
    /\ browser' = OnDisconnected(browser)
    /\ last' = Thrown("disconnected", "event", browser,
                      BrowserError(<<"Browser disconnected unexpectedly">>), <<>>, "none")
    /\ discNoInit' = TRUE
    /\ UNCHANGED <<pc, target, launchCalls, everInitialized, launchedSinceClose>>

----------------------------------------------------------------------------
\* getPage() and setupPage()

NeverNotInitialized(b) == FALSE

\* if (!this.browser) throw new BrowserError('Browser not initialized')
NotInitialized(b) == b = Null

\* The driver calls of getPage in order: browser.newPage, then setupPage's
\* page.setViewport, page.setUserAgent, page.setDefaultTimeout and
\* page.setExtraHTTPHeaders.
PageCalls == <<"newPage", "setViewport", "setUserAgent", "setDefaultTimeout",
               "setExtraHTTPHeaders">>

\* setupPage's catch: any failure of its calls becomes a BrowserError.
SetupPageError(e) == Wrap("Failed to setup page", e)

\* getPage's catch: a failure of newPage is wrapped once, the BrowserError
\* of setupPage a second time.
GetPageError(failAt, e) ==
    IF failAt = 1
    THEN Wrap("Failed to create new page", e)
    ELSE WrapBrowserError("Failed to create new page", SetupPageError(e))

\* getPage(): failAt is the first driver call that fails (0: none does).
GetPage(t) ==
    /\ pc[t] = "idle"
    /\ IF NotInitialized(browser)
       THEN last' = Thrown("getPage", "call", browser,
                           BrowserError(<<"Browser not initialized">>), <<>>, "none")
       ELSE \E failAt \in 0..Len(PageCalls) :
              IF failAt = 0
              THEN last' = Step("getPage", "call", browser, "return", "page", NoError,
                                PageCalls, "ok", <<>>, <<DefaultTimeout>>, <<>>)
              ELSE \E e \in DriverThrown :
                     last' = Thrown("getPage", "call", browser, GetPageError(failAt, e),
                                    SubSeq(PageCalls, 1, failAt), "fail")
    /\ UNCHANGED <<browser, status, pc, target, launchCalls, everInitialized,
                   discNoInit, launchedSinceClose>>

----------------------------------------------------------------------------
\* navigateTo() and waitForSelector()

\* An optional argument: <<>> when the caller leaves it out, <<v>> otherwise.
None == <<>>
Some(v) == <<v>>

Timeouts == {None} \cup {Some(n) : n \in 0..MaxTimeout}
WaitUntils == {None, Some("load")}

\* INavigationOptions | undefined
NavOptions ==
    {None} \cup {Some([waitUntil |-> w, timeout |-> n]) : w \in WaitUntils, n \in Timeouts}

\* options?.timeout
OptionsTimeout(options) == IF options = None THEN None ELSE options[1].timeout

\* options?.waitUntil
OptionsWaitUntil(options) == IF options = None THEN None ELSE options[1].waitUntil

\* timeout || this.config.defaultTimeout: undefined and 0 are both falsy.
EffectiveTimeout(timeout) ==
    IF timeout # None /\ timeout[1] # 0 THEN timeout[1] ELSE DefaultTimeout

\* options?.waitUntil || 'networkidle0'
EffectiveWaitUntil(waitUntil) ==
    IF waitUntil # None THEN waitUntil[1] ELSE "networkidle0"

\* catch of navigateTo: BrowserError(`Failed to navigate to ${url}: ...`)
NavigateError(url, e) == Wrap("Failed to navigate to " \o url, e)

Urls == {"url"}

\* navigateTo(page, url, options): page.goto resolves or rejects.
NavigateTo(t) ==
    /\ pc[t] = "idle"
    /\ \E url \in Urls, options \in NavOptions :
         LET sent == Some(EffectiveTimeout(OptionsTimeout(options)))
             wait == Some(EffectiveWaitUntil(OptionsWaitUntil(options)))
         IN \/ last' = Step("navigateTo", "call", browser, "return", "void", NoError,
                            <<"goto">>, "ok", OptionsTimeout(options), sent, wait)
            \/ \E e \in DriverThrown :
                 last' = Step("navigateTo", "call", browser, "throw", "none",
                              NavigateError(url, e), <<"goto">>, "fail",
                              OptionsTimeout(options), sent, wait)
    /\ UNCHANGED <<browser, status, pc, target, launchCalls, everInitialized,
                   discNoInit, launchedSinceClose>>

\* What the driver's page.waitForSelector can do.
WaitOutcomes == {"found", "timeout", "failure"}

WaitResultThrowing(drv) ==
    IF drv = "found" THEN [outcome |-> "return", value |-> "true", errType |-> "none"]
    ELSE IF drv = "timeout" THEN [outcome |-> "return", value |-> "false", errType |-> "none"]
    ELSE [outcome |-> "throw", value |-> "none", errType |-> "DriverError"]

\* try { await page.waitForSelector(...); return true } catch { return false }
WaitResult(drv) ==
    IF drv = "found" THEN [outcome |-> "return", value |-> "true", errType |-> "none"]
    ELSE [outcome |-> "return", value |-> "false", errType |-> "none"]

\* waitForSelector(page, selector, timeout)
WaitForSelector(t) ==
    /\ pc[t] = "idle"
    /\ \E timeout \in Timeouts, drv \in WaitOutcomes :
         LET r == WaitResult(drv) IN
         last' = Step("waitForSelector", "call", browser, r.outcome, r.value,
                      [errType |-> r.errType, message |-> <<>>], <<"waitForSelector">>,
                      drv, timeout, Some(EffectiveTimeout(timeout)), None)
    /\ UNCHANGED <<browser, status, pc, target, launchCalls, everInitialized,
                   discNoInit, launchedSinceClose>>

----------------------------------------------------------------------------
\* close()

AlwaysHasBrowser(b) == TRUE

\* if (this.browser)
HasBrowser(b) == b # Null

\* close() up to the await of this.browser.close(), or to its return when
\* there is no handle.
Close(t) ==
    /\ pc[t] = "idle"
    /\ IF HasBrowser(browser)
       THEN /\ pc' = [pc EXCEPT ![t] = "close_await"]
            /\ target' = [target EXCEPT ![t] = browser]
            /\ last' = Pending("close", browser, <<"close">>)
       ELSE /\ UNCHANGED <<pc, target>>
            /\ last' = Returned("close", "call", browser, "void", <<>>, "none")
    /\ launchedSinceClose' = 0
    /\ UNCHANGED <<browser, status, launchCalls, everInitialized, discNoInit>>

ClearedAfterFailedClose(b) == Null

\* The catch of close assigns nothing: the field keeps its value.
AfterFailedClose(b) == b

\* The driver's close resolves: this.browser = null.
CloseResolve(t) ==
    /\ pc[t] = "close_await"
    /\ status' = IF target[t] \in BrowserIds
                 THEN [status EXCEPT ![target[t]] = "closed"]
                 ELSE status
    /\ browser' = Null
    /\ pc' = [pc EXCEPT ![t] = "idle"]
    /\ target' = [target EXCEPT ![t] = Null]
    /\ last' = Returned("close", "resume", browser, "void", <<>>, "ok")
    /\ UNCHANGED <<launchCalls, everInitialized, discNoInit, launchedSinceClose>>

\* The driver's close rejects: the catch wraps the error.
CloseReject(t) ==
    /\ pc[t] = "close_await"
    /\ \E e \in DriverThrown :
         last' = Thrown("close", "resume", browser, Wrap("Failed to close browser", e),
                        <<>>, "fail")
    /\ browser' = AfterFailedClose(browser)
    /\ pc' = [pc EXCEPT ![t] = "idle"]
    /\ target' = [target EXCEPT ![t] = Null]
    /\ UNCHANGED <<status, launchCalls, everInitialized, discNoInit, launchedSinceClose>>

----------------------------------------------------------------------------
\* Overlapping callers of the operations that read or write this.browser.
Next ==
    \/ \E t \in Tasks : InitStart(t)
    \/ \E t \in Tasks : InitResolve(t)
    \/ \E t \in Tasks : InitReject(t)
    \/ \E b \in BrowserIds : Disconnect(b)
    \/ \E t \in Tasks : GetPage(t)
    \/ \E t \in Tasks : Close(t)
    \/ \E t \in Tasks : CloseResolve(t)
    \/ \E t \in Tasks : CloseReject(t)

Spec == Init /\ [][Next]_vars

\* One caller that awaits each call before it makes the next.
Caller == CHOOSE t \in Tasks : TRUE

NextOneCaller ==
    \/ InitStart(Caller)
    \/ InitResolve(Caller)
    \/ InitReject(Caller)
    \/ \E b \in BrowserIds : Disconnect(b)
    \/ GetPage(Caller)
    \/ NavigateTo(Caller)
    \/ WaitForSelector(Caller)
    \/ Close(Caller)
    \/ CloseResolve(Caller)
    \/ CloseReject(Caller)

SpecOneCaller == Init /\ [][NextOneCaller]_vars

TypeOK ==
    /\ browser \in {Null} \cup BrowserIds
    /\ status \in [BrowserIds -> {"none", "live", "closed", "disconnected"}]
    /\ pc \in [Tasks -> {"idle", "init_launch", "close_await"}]
    /\ target \in [Tasks -> {Null} \cup BrowserIds]
    /\ launchCalls \in 0..MaxLaunches
    /\ launchedSinceClose \in 0..2

----------------------------------------------------------------------------
\* The "Browser not initialized" failure of getPage: a BrowserError thrown
\* before any driver call.
FailedNotInitialized ==
    /\ last.outcome = "throw"
    /\ last.errType = "BrowserError"
    /\ last.message = <<"Browser not initialized">>
    /\ last.calls = <<>>

\* C1: a getPage made while no initialize has yet assigned the handle
\* (none called, one pending, or one failed) fails with the "Browser not
\* initialized" BrowserError and asks the driver for no page.
C1_GetPageBeforeInitialize ==
    (last.op = "getPage" /\ ~everInitialized) => FailedNotInitialized

\* C1 witness: getPage has just run after an initialize launched and before
\* any initialize succeeded.
C1_Witness ==
    /\ last.op = "getPage"
    /\ ~everInitialized
    /\ launchCalls > 0

\* C2: in any stretch without a close call, the initialize calls make at
\* most one driver launch between them, however the calls overlap.
C2_AtMostOneLaunch == launchedSinceClose <= 1

\* C3: at most one browser launched by the instance is live.
C3_AtMostOneLive == Cardinality(Live) <= 1

\* C4: a getPage made after a disconnect event, no initialize having been
\* called or completed since, fails with "Browser not initialized".
C4_GetPageAfterDisconnect ==
    (last.op = "getPage" /\ discNoInit) => FailedNotInitialized

\* C4 witness: getPage has just run after a disconnect that followed a
\* successful initialize.
C4_Witness ==
    /\ last.op = "getPage"
    /\ discNoInit
    /\ everInitialized

\* C5: a close call that finds no handle returns without failing, calls no
\* driver function and leaves the handle null.
C5_CloseWithoutHandle ==
    (last.op = "close" /\ last.phase = "call" /\ last.had = Null) =>
        /\ last.outcome = "return"
        /\ last.errType = "none"
        /\ last.calls = <<>>
        /\ browser = Null

\* C5 witness: close has just run with no handle, after an initialize had
\* set one and a close or a disconnect had cleared it.
C5_Witness ==
    /\ last.op = "close"
    /\ last.phase = "call"
    /\ last.had = Null
    /\ everInitialized

\* C6: waitForSelector always returns a boolean: true exactly when the
\* driver's wait found the element, false on a timeout or another failure.
C6_WaitForSelectorNeverThrows ==
    (last.op = "waitForSelector") =>
        /\ last.outcome = "return"
        /\ last.value \in {"true", "false"}
        /\ (last.value = "true") <=> (last.drv = "found")

\* C6 witness: the driver's wait failed otherwise than by a timeout and
\* waitForSelector returned false.
C6_Witness ==
    /\ last.op = "waitForSelector"
    /\ last.drv = "failure"
    /\ last.value = "false"

\* C7: what initialize, getPage, navigateTo or close throws is a
\* BrowserError, and a failed driver call in one of them makes it throw one.
C7_OnlyBrowserErrors ==
    (last.op \in {"initialize", "getPage", "navigateTo", "close"}) =>
        /\ (last.outcome = "throw") => (last.errType = "BrowserError")
        /\ (last.drv = "fail") => (last.outcome = "throw" /\ last.errType = "BrowserError")

\* C7 witness: page.goto rejected with a value that is no Error, and
\* navigateTo threw a BrowserError naming the URL.
C7_Witness ==
    /\ last.op = "navigateTo"
    /\ last.drv = "fail"
    /\ last.errType = "BrowserError"
    /\ last.message = <<"Failed to navigate to url", "thrown value">>

\* C8, the close part: close with a handle calls the driver's close and leaves the handle
\* as it is; when the driver's close succeeds the handle becomes null; when
\* it fails close throws the wrapped error and the handle keeps the value
\* it had, so that a handle still set then stays set.
C8_CloseClearsOnlyOnSuccess ==
    (last.op = "close") =>
        /\ (last.phase = "call" /\ last.had # Null) =>
              (last.outcome = "pending" /\ last.calls = <<"close">> /\ browser = last.had)
        /\ (last.phase = "resume" /\ last.drv = "ok") =>
              (last.outcome = "return" /\ browser = Null)
        /\ (last.phase = "resume" /\ last.drv = "fail") =>
              /\ last.outcome = "throw"
              /\ last.errType = "BrowserError"
              /\ Head(last.message) = "Failed to close browser"
              /\ browser = last.had

\* C8, what follows from a handle that a failed close left set: the next
\* close calls the driver's close again (above) and an initialize call that
\* finds the handle set returns without a launch.
C8_NoLaunchWhenHandleSet ==
    (last.op = "initialize" /\ last.phase = "call" /\ last.had # Null) =>
        /\ last.outcome = "return"
        /\ last.calls = <<>>
        /\ browser = last.had

C9_TimeoutPassedThrough ==
    (last.op \in {"navigateTo", "waitForSelector"}) =>
        last.sentTimeout = IF last.argTimeout = None
                           THEN Some(DefaultTimeout)
                           ELSE last.argTimeout

\* C10: whenever the handle is null, no browser launched by the instance is
\* still live.
C10_NullHandleNoLiveBrowser == (browser = Null) => (Live = {})

====
